---- MODULE Spec2Model ----
(***************************************************************************)
(* The request handlers of alx_travel_app/listings (views.py, urls.py) as  *)
(* a state machine over the data store: one action per viewset action.     *)
(* The cancel handler is split at its one point of interleaving (between   *)
(* get_object() and booking.save()); every other handler is one step.      *)
(***************************************************************************)
EXTENDS Integers, FiniteSets, Sequences, TLC

\* ------------------------------------------------------------------ bounds
MaxListings == 2      \* listing primary keys handed out
MaxBookings == 2      \* booking primary keys handed out
MaxRequests == 2      \* cancel requests that may be in flight together

\* --------------------------------------------------------------- universes
Users  == {"alice", "bob"}
Anon   == "anon"                      \* request.user of an unauthenticated call
Callers == Users \cup {Anon}
Slugs  == {"villa-1", "villa-2"}
Titles == {"t1", "t2"}

PENDING   == "PENDING"
CONFIRMED == "CONFIRMED"
CANCELLED == "CANCELLED"
BookingStatus == {PENDING, CONFIRMED, CANCELLED}

ListingPks == 1..MaxListings
BookingPks == 1..MaxBookings
ReviewPks  == {1}

SAFE_METHODS == {"GET", "HEAD", "OPTIONS"}

AllowAny                  == "AllowAny"
IsAuthenticated           == "IsAuthenticated"
IsAuthenticatedOrReadOnly == "IsAuthenticatedOrReadOnly"
IsOwnerOrReadOnly         == "IsOwnerOrReadOnly"

ListingSerializer       == "ListingSerializer"
ListingDetailSerializer == "ListingDetailSerializer"

VARIABLES
    listings,                    \* pk -> [slug, owner, title]
    bookings,                    \* pk -> [guest, listing, status]
    reviews,                     \* pk -> [author, listing]
    next_listing_pk,             \* the store's next listing id
    next_booking_pk,             \* the store's next booking id
    default_permission_classes,  \* api_settings.DEFAULT_PERMISSION_CLASSES
    inflight,                    \* cancel requests between get_object() and save():
                                 \*   [user, pk, booking (the object in memory),
                                 \*    overtaken (history: another cancel of the same
                                 \*    booking was answered 200 since the read)]
    response                     \* the response to the request answered last

vars == <<listings, bookings, reviews, next_listing_pk, next_booking_pk,
          default_permission_classes, inflight, response>>

\* ---------------------------------------------------------------- helpers

Remove(seq, i) == [j \in 1..(Len(seq) - 1) |-> IF j < i THEN seq[j] ELSE seq[j + 1]]

Response(op, user, pk, code) ==
    [op |-> op, user |-> user, pk |-> pk, code |-> code,
     serializer |-> "none", items |-> {}, sent |-> "none", detail |-> "none",
     raced |-> FALSE]

NoResponse == Response("none", "none", 0, 0)

Restrict(f, S) == [k \in S |-> f[k]]

\* The project's default permission classes: settings are not part of the
\* handlers; the framework's own default is AllowAny.
DefaultPermissionChoices ==
    {{AllowAny}, {IsAuthenticated}, {IsAuthenticatedOrReadOnly}}

\* ------------------------------------------------------------ permissions
\* has_permission of the framework's classes; IsOwnerOrReadOnly decides per
\* object only: safe method, or the requester is the object's owner field
\* (owner of a listing, guest of a booking, author of a review).
HasPermission(cls, user, method) ==
    CASE cls = AllowAny                  -> TRUE
      [] cls = IsAuthenticated           -> user # Anon
      [] cls = IsAuthenticatedOrReadOnly -> method \in SAFE_METHODS \/ user # Anon
      [] OTHER                           -> TRUE

HasObjectPermission(cls, user, method, owner) ==
    CASE cls = IsOwnerOrReadOnly -> method \in SAFE_METHODS \/ owner = user
      [] OTHER                   -> TRUE

\* APIView.check_permissions / permission_denied: the code of the refusal,
\* 0 when every class grants the request.
CheckPermissions(classes, user, method) ==
    IF \A c \in classes : HasPermission(c, user, method) THEN 0
    ELSE IF user = Anon THEN 401 ELSE 403

CheckObjectPermissions(classes, user, method, owner) ==
    IF \A c \in classes : HasObjectPermission(c, user, method, owner) THEN 0
    ELSE IF user = Anon THEN 401 ELSE 403

\* ---------------------------------------------------------------- listings
\* `lookkup_field = 'slug'` names an attribute the framework never reads:
\* the lookup field stays the default.
ListingLookupField == "pk"

ListingGetSerializerClass(action) ==
    IF action = "retireve" THEN ListingDetailSerializer ELSE ListingSerializer

\* The classes chosen per action are stored in `permissions_classes`; what
\* super().get_permissions() instantiates is `permission_classes`.
ListingGetPermissions(action) ==
    LET permissions_classes ==
            IF action \in {"list", "retrieve"} THEN {AllowAny}
            ELSE {IsAuthenticated, IsOwnerOrReadOnly}
        permission_classes == default_permission_classes
    IN  permission_classes

Answer(r) ==
    /\ response' = r
    /\ UNCHANGED <<default_permission_classes, inflight>>

KeepStore ==
    UNCHANGED <<listings, bookings, reviews, next_listing_pk, next_booking_pk>>

ListingList(user) ==
    LET denied == CheckPermissions(ListingGetPermissions("list"), user, "GET") IN
    /\ KeepStore
    /\ IF denied # 0
         THEN Answer(Response("listing_list", user, 0, denied))
         ELSE Answer([Response("listing_list", user, 0, 200) EXCEPT
                        !.items = DOMAIN listings,
                        !.serializer = ListingGetSerializerClass("list")])

ListingRetrieve(user, pk) ==
    LET classes == ListingGetPermissions("retrieve")
        denied  == CheckPermissions(classes, user, "GET")
    IN
    /\ KeepStore
    /\ IF denied # 0
         THEN Answer(Response("listing_retrieve", user, pk, denied))
       ELSE IF pk \notin DOMAIN listings
         THEN Answer(Response("listing_retrieve", user, pk, 404))
       ELSE IF CheckObjectPermissions(classes, user, "GET", listings[pk].owner) # 0
         THEN Answer(Response("listing_retrieve", user, pk,
                  CheckObjectPermissions(classes, user, "GET", listings[pk].owner)))
       ELSE Answer([Response("listing_retrieve", user, pk, 200) EXCEPT
                        !.items = {pk},
                        !.serializer = ListingGetSerializerClass("retrieve")])

\* A save that keeps the owner named in the request body.
ListingPerformCreateFromBody(user, data) ==
    [slug |-> data.slug, owner |-> data.owner, title |-> data.title]

\* serializer.save(owner=self.request.user)
ListingPerformCreate(user, data) ==
    [slug |-> data.slug, owner |-> user, title |-> data.title]

ListingCreate(user, data) ==
    LET denied == CheckPermissions(ListingGetPermissions("create"), user, "POST")
        sent   == [Response("listing_create", user, 0, 0) EXCEPT !.sent = data.owner]
    IN
    /\ next_listing_pk <= MaxListings
    /\ UNCHANGED <<bookings, reviews, next_booking_pk>>
    /\ IF denied # 0
         THEN /\ Answer([sent EXCEPT !.code = denied])
              /\ UNCHANGED <<listings, next_listing_pk>>
       ELSE IF \E k \in DOMAIN listings : listings[k].slug = data.slug
         THEN /\ Answer([sent EXCEPT !.code = 400])
              /\ UNCHANGED <<listings, next_listing_pk>>
       ELSE IF ListingPerformCreate(user, data).owner \notin Users
         THEN \* an AnonymousUser is no value for the owner column: ValueError
              /\ Answer([sent EXCEPT !.code = 500, !.detail = "ValueError"])
              /\ UNCHANGED <<listings, next_listing_pk>>
       ELSE /\ listings' = [k \in DOMAIN listings \cup {next_listing_pk} |->
                               IF k = next_listing_pk
                               THEN ListingPerformCreate(user, data)
                               ELSE listings[k]]
            /\ next_listing_pk' = next_listing_pk + 1
            /\ Answer([sent EXCEPT !.code = 201, !.pk = next_listing_pk,
                          !.serializer = ListingGetSerializerClass("create")])

ListingUpdate(user, pk, data) ==
    LET classes == ListingGetPermissions("update")
        denied  == CheckPermissions(classes, user, "PUT")
        sent    == Response("listing_update", user, pk, 0)
    IN
    /\ UNCHANGED <<bookings, reviews, next_listing_pk, next_booking_pk>>
    /\ IF denied # 0
         THEN Answer([sent EXCEPT !.code = denied]) /\ UNCHANGED listings
       ELSE IF pk \notin DOMAIN listings
         THEN Answer([sent EXCEPT !.code = 404]) /\ UNCHANGED listings
       ELSE IF CheckObjectPermissions(classes, user, "PUT", listings[pk].owner) # 0
         THEN /\ Answer([sent EXCEPT !.code =
                  CheckObjectPermissions(classes, user, "PUT", listings[pk].owner)])
              /\ UNCHANGED listings
       ELSE /\ listings' = [listings EXCEPT ![pk].title = data.title]
            /\ Answer([sent EXCEPT !.code = 200,
                          !.serializer = ListingGetSerializerClass("update")])

ListingDestroy(user, pk) ==
    LET classes == ListingGetPermissions("destroy")
        denied  == CheckPermissions(classes, user, "DELETE")
    IN
    /\ UNCHANGED <<next_listing_pk, next_booking_pk>>
    /\ IF denied # 0
         THEN /\ Answer(Response("listing_destroy", user, pk, denied))
              /\ UNCHANGED <<listings, bookings, reviews>>
       ELSE IF pk \notin DOMAIN listings
         THEN /\ Answer(Response("listing_destroy", user, pk, 404))
              /\ UNCHANGED <<listings, bookings, reviews>>
       ELSE IF CheckObjectPermissions(classes, user, "DELETE", listings[pk].owner) # 0
         THEN /\ Answer(Response("listing_destroy", user, pk,
                  CheckObjectPermissions(classes, user, "DELETE", listings[pk].owner)))
              /\ UNCHANGED <<listings, bookings, reviews>>
       ELSE /\ listings' = Restrict(listings, DOMAIN listings \ {pk})
            /\ bookings' = Restrict(bookings,
                               {b \in DOMAIN bookings : bookings[b].listing # pk})
            /\ reviews'  = Restrict(reviews,
                               {v \in DOMAIN reviews : reviews[v].listing # pk})
            /\ Answer(Response("listing_destroy", user, pk, 204))

\* ---------------------------------------------------------------- bookings
BookingPermissionClasses == {IsAuthenticated, IsOwnerOrReadOnly}

\* A queryset that is not narrowed to the requester.
BookingGetQuerysetUnfiltered(user) ==
    DOMAIN bookings

\* Booking.objects.filter(guest=self.request.user)
BookingGetQueryset(user) ==
    {pk \in DOMAIN bookings : bookings[pk].guest = user}

\* GenericAPIView.get_object over get_queryset(): 404 outside the queryset,
\* then the object-level permission check; 0 when the object is handed out.
BookingGetObject(user, pk, method) ==
    IF pk \notin BookingGetQueryset(user) THEN 404
    ELSE CheckObjectPermissions(BookingPermissionClasses, user, method,
                                bookings[pk].guest)

BookingList(user) ==
    LET denied == CheckPermissions(BookingPermissionClasses, user, "GET") IN
    /\ KeepStore
    /\ IF denied # 0
         THEN Answer(Response("booking_list", user, 0, denied))
         ELSE Answer([Response("booking_list", user, 0, 200) EXCEPT
                        !.items = BookingGetQueryset(user)])

BookingRetrieve(user, pk) ==
    LET denied == CheckPermissions(BookingPermissionClasses, user, "GET") IN
    /\ KeepStore
    /\ IF denied # 0
         THEN Answer(Response("booking_retrieve", user, pk, denied))
       ELSE IF BookingGetObject(user, pk, "GET") # 0
         THEN Answer(Response("booking_retrieve", user, pk,
                              BookingGetObject(user, pk, "GET")))
       ELSE Answer([Response("booking_retrieve", user, pk, 200) EXCEPT !.items = {pk}])

\* serializer.save(guest=self.request.user)
BookingPerformCreate(user, data) ==
    [guest |-> user, listing |-> data.listing, status |-> PENDING]

BookingCreate(user, data) ==
    LET denied == CheckPermissions(BookingPermissionClasses, user, "POST") IN
    /\ next_booking_pk <= MaxBookings
    /\ UNCHANGED <<listings, reviews, next_listing_pk>>
    /\ IF denied # 0
         THEN /\ Answer(Response("booking_create", user, 0, denied))
              /\ UNCHANGED <<bookings, next_booking_pk>>
       ELSE IF data.listing \notin DOMAIN listings
         THEN /\ Answer(Response("booking_create", user, 0, 400))
              /\ UNCHANGED <<bookings, next_booking_pk>>
       ELSE /\ bookings' = [k \in DOMAIN bookings \cup {next_booking_pk} |->
                               IF k = next_booking_pk
                               THEN BookingPerformCreate(user, data)
                               ELSE bookings[k]]
            /\ next_booking_pk' = next_booking_pk + 1
            /\ Answer(Response("booking_create", user, next_booking_pk, 201))

BookingUpdate(user, pk, data) ==
    LET denied == CheckPermissions(BookingPermissionClasses, user, "PUT") IN
    /\ UNCHANGED <<listings, reviews, next_listing_pk, next_booking_pk>>
    /\ IF denied # 0
         THEN Answer(Response("booking_update", user, pk, denied)) /\ UNCHANGED bookings
       ELSE IF BookingGetObject(user, pk, "PUT") # 0
         THEN /\ Answer(Response("booking_update", user, pk,
                                 BookingGetObject(user, pk, "PUT")))
              /\ UNCHANGED bookings
       ELSE IF data.listing \notin DOMAIN listings
         THEN Answer(Response("booking_update", user, pk, 400)) /\ UNCHANGED bookings
       ELSE /\ bookings' = [bookings EXCEPT ![pk].listing = data.listing]
            /\ Answer(Response("booking_update", user, pk, 200))

BookingDestroy(user, pk) ==
    LET denied == CheckPermissions(BookingPermissionClasses, user, "DELETE") IN
    /\ UNCHANGED <<listings, reviews, next_listing_pk, next_booking_pk>>
    /\ IF denied # 0
         THEN Answer(Response("booking_destroy", user, pk, denied)) /\ UNCHANGED bookings
       ELSE IF BookingGetObject(user, pk, "DELETE") # 0
         THEN /\ Answer(Response("booking_destroy", user, pk,
                                 BookingGetObject(user, pk, "DELETE")))
              /\ UNCHANGED bookings
       ELSE /\ bookings' = Restrict(bookings, DOMAIN bookings \ {pk})
            /\ Answer(Response("booking_destroy", user, pk, 204))

\* ------------------------------------------------------------------ cancel
\* `booking.status == Booking.BookingStatus.CANCELLED` is a comparison whose
\* value is dropped: the object in memory is what get_object() read.
CancelMutate(booking) == booking

\* Model.save(): UPDATE by primary key, INSERT when no row was updated; the
\* INSERT of a row whose listing is gone is an IntegrityError.
SaveFails(pk, booking) ==
    pk \notin DOMAIN bookings /\ booking.listing \notin DOMAIN listings

SaveBooking(pk, booking) ==
    IF SaveFails(pk, booking) THEN bookings
    ELSE [k \in DOMAIN bookings \cup {pk} |-> IF k = pk THEN booking ELSE bookings[k]]

\* A save under optimistic locking: a request overtaken by another cancel of
\* the same booking is refused.
CancelSaveCodeVersioned(request) ==
    IF request.overtaken THEN 409
    ELSE IF SaveFails(request.pk, request.booking) THEN 500 ELSE 200

\* The status of the answer once save() has run: nothing is compared with
\* the persisted row, nor with what other requests did in between.
CancelSaveCode(request) ==
    IF SaveFails(request.pk, CancelMutate(request.booking)) THEN 500 ELSE 200

\* cancel() up to, not including, booking.save()
CancelBegin(user, pk) ==
    LET denied == CheckPermissions(BookingPermissionClasses, user, "POST") IN
    /\ Len(inflight) < MaxRequests
    /\ KeepStore
    /\ UNCHANGED default_permission_classes
    /\ IF denied # 0
         THEN response' = Response("cancel", user, pk, denied) /\ UNCHANGED inflight
       ELSE IF BookingGetObject(user, pk, "POST") # 0
         THEN /\ response' = Response("cancel", user, pk,
                                      BookingGetObject(user, pk, "POST"))
              /\ UNCHANGED inflight
       ELSE IF bookings[pk].status = CONFIRMED
         THEN /\ inflight' = Append(inflight,
                                [user |-> user, pk |-> pk, booking |-> bookings[pk],
                                 overtaken |-> FALSE])
              /\ UNCHANGED response
       ELSE \* rest_framework.status has no attribute HTT_400_BAD_REQUEST
            /\ response' = [Response("cancel", user, pk, 500) EXCEPT
                              !.detail = "AttributeError"]
            /\ UNCHANGED inflight

\* booking.save() and the Response that follows it
CancelSave(i) ==
    LET request == inflight[i]
        code    == CancelSaveCode(request)
    IN
    /\ UNCHANGED <<listings, reviews, next_listing_pk, next_booking_pk,
                   default_permission_classes>>
    /\ bookings' = IF code = 200
                     THEN SaveBooking(request.pk, CancelMutate(request.booking))
                     ELSE bookings
    /\ response' = [Response("cancel", request.user, request.pk, code) EXCEPT
                      !.detail = IF code = 200 THEN "Booking cancelled"
                                 ELSE "IntegrityError",
                      !.raced = request.overtaken /\ code = 200]
    /\ inflight' = LET marked == [j \in 1..Len(inflight) |->
                                    IF inflight[j].pk = request.pk /\ code = 200
                                    THEN [inflight[j] EXCEPT !.overtaken = TRUE]
                                    ELSE inflight[j]]
                   IN  Remove(marked, i)

\* ----------------------------------------------------------------- reviews
\* NestedSimpleRouter(router, r'listings', lookup='listing'): the parent
\* segment is captured under lookup + '_' + the parent's lookup field.
RouterKwargs(segment) == ("listing_" \o ListingLookupField) :> segment

\* `permission_class` is no attribute the framework reads.
ReviewGetPermissions ==
    LET permission_class == {IsAuthenticatedOrReadOnly, IsOwnerOrReadOnly}
        permission_classes == default_permission_classes
    IN  permission_classes

\* Review.objects.filter(listing__slug=self.kwargs['listing_slug'])
ReviewGetQueryset(kwargs) ==
    IF "listing_slug" \notin DOMAIN kwargs
      THEN [error |-> "KeyError", items |-> {}]
      ELSE [error |-> "none",
            items |-> {v \in DOMAIN reviews :
                         listings[reviews[v].listing].slug = kwargs["listing_slug"]}]

\* Listing.objects.get(slug=self.kwargs['listing<-slug']) and
\* serializer.save(author=self.request.user, listing=listing)
ReviewPerformCreate(user, kwargs, data) ==
    IF "listing<-slug" \notin DOMAIN kwargs
      THEN [error |-> "KeyError", review |-> data]
    ELSE IF ~ \E k \in DOMAIN listings : listings[k].slug = kwargs["listing<-slug"]
      THEN [error |-> "DoesNotExist", review |-> data]
    ELSE IF user \notin Users
      THEN [error |-> "ValueError", review |-> data]
    ELSE [error |-> "none",
          review |-> [author |-> user, rating |-> data.rating,
                      listing |-> CHOOSE k \in DOMAIN listings :
                                    listings[k].slug = kwargs["listing<-slug"]]]

NewReviewPk == IF DOMAIN reviews = {} THEN 1
               ELSE 1 + CHOOSE m \in DOMAIN reviews : \A v \in DOMAIN reviews : v <= m

KeepAllButReviews ==
    UNCHANGED <<listings, bookings, next_listing_pk, next_booking_pk>>

ReviewList(user, segment) ==
    LET denied == CheckPermissions(ReviewGetPermissions, user, "GET")
        qs     == ReviewGetQueryset(RouterKwargs(segment))
    IN
    /\ KeepStore
    /\ IF denied # 0
         THEN Answer(Response("review_list", user, 0, denied))
       ELSE IF qs.error # "none"
         THEN Answer([Response("review_list", user, 0, 500) EXCEPT !.detail = qs.error])
       ELSE Answer([Response("review_list", user, 0, 200) EXCEPT !.items = qs.items])

ReviewRetrieve(user, segment, pk) ==
    LET classes == ReviewGetPermissions
        denied  == CheckPermissions(classes, user, "GET")
        qs      == ReviewGetQueryset(RouterKwargs(segment))
    IN
    /\ KeepStore
    /\ IF denied # 0
         THEN Answer(Response("review_retrieve", user, pk, denied))
       ELSE IF qs.error # "none"
         THEN Answer([Response("review_retrieve", user, pk, 500) EXCEPT
                        !.detail = qs.error])
       ELSE IF pk \notin qs.items
         THEN Answer(Response("review_retrieve", user, pk, 404))
       ELSE IF CheckObjectPermissions(classes, user, "GET", reviews[pk].author) # 0
         THEN Answer(Response("review_retrieve", user, pk,
                  CheckObjectPermissions(classes, user, "GET", reviews[pk].author)))
       ELSE Answer([Response("review_retrieve", user, pk, 200) EXCEPT !.items = {pk}])

ReviewCreate(user, segment, data) ==
    LET denied  == CheckPermissions(ReviewGetPermissions, user, "POST")
        created == ReviewPerformCreate(user, RouterKwargs(segment), data)
        sent    == [Response("review_create", user, 0, 0) EXCEPT !.sent = data.author]
    IN
    /\ KeepAllButReviews
    /\ IF denied # 0
         THEN Answer([sent EXCEPT !.code = denied]) /\ UNCHANGED reviews
       ELSE IF created.error # "none"
         THEN /\ Answer([sent EXCEPT !.code = 500, !.detail = created.error])
              /\ UNCHANGED reviews
       ELSE /\ reviews' = [k \in DOMAIN reviews \cup {NewReviewPk} |->
                              IF k = NewReviewPk THEN created.review ELSE reviews[k]]
            /\ Answer([sent EXCEPT !.code = 201, !.pk = NewReviewPk])

ReviewUpdate(user, segment, pk, data) ==
    LET classes == ReviewGetPermissions
        denied  == CheckPermissions(classes, user, "PUT")
        qs      == ReviewGetQueryset(RouterKwargs(segment))
    IN
    /\ KeepAllButReviews
    /\ IF denied # 0
         THEN Answer(Response("review_update", user, pk, denied)) /\ UNCHANGED reviews
       ELSE IF qs.error # "none"
         THEN /\ Answer([Response("review_update", user, pk, 500) EXCEPT
                           !.detail = qs.error])
              /\ UNCHANGED reviews
       ELSE IF pk \notin qs.items
         THEN Answer(Response("review_update", user, pk, 404)) /\ UNCHANGED reviews
       ELSE IF CheckObjectPermissions(classes, user, "PUT", reviews[pk].author) # 0
         THEN /\ Answer(Response("review_update", user, pk,
                  CheckObjectPermissions(classes, user, "PUT", reviews[pk].author)))
              /\ UNCHANGED reviews
       ELSE /\ reviews' = [reviews EXCEPT ![pk].rating = data.rating]
            /\ Answer(Response("review_update", user, pk, 200))

ReviewDestroy(user, segment, pk) ==
    LET classes == ReviewGetPermissions
        denied  == CheckPermissions(classes, user, "DELETE")
        qs      == ReviewGetQueryset(RouterKwargs(segment))
    IN
    /\ KeepAllButReviews
    /\ IF denied # 0
         THEN Answer(Response("review_destroy", user, pk, denied)) /\ UNCHANGED reviews
       ELSE IF qs.error # "none"
         THEN /\ Answer([Response("review_destroy", user, pk, 500) EXCEPT
                           !.detail = qs.error])
              /\ UNCHANGED reviews
       ELSE IF pk \notin qs.items
         THEN Answer(Response("review_destroy", user, pk, 404)) /\ UNCHANGED reviews
       ELSE IF CheckObjectPermissions(classes, user, "DELETE", reviews[pk].author) # 0
         THEN /\ Answer(Response("review_destroy", user, pk,
                  CheckObjectPermissions(classes, user, "DELETE", reviews[pk].author)))
              /\ UNCHANGED reviews
       ELSE /\ reviews' = Restrict(reviews, DOMAIN reviews \ {pk})
            /\ Answer(Response("review_destroy", user, pk, 204))

\* ------------------------------------------------------------------- state
ListingCreateData == [slug : Slugs, title : {"t1"}, owner : Users]
ListingUpdateData == [title : Titles]
BookingCreateData == [listing : ListingPks, guest : Users]
BookingUpdateData == [listing : ListingPks]
ReviewCreateData  == [rating : {1}, author : Users]
ReviewUpdateData  == [rating : {2}]

\* The store as the handlers find it: one listing with one review, and at
\* most one booking, made and possibly confirmed or cancelled beforehand.
Init ==
    /\ default_permission_classes \in DefaultPermissionChoices
    /\ listings = (1 :> [slug |-> "villa-1", owner |-> "alice", title |-> "t1"])
    /\ next_listing_pk = 2
    /\ \E n \in 0..1 :
         /\ bookings \in [1..n -> [guest : Users, listing : {1}, status : BookingStatus]]
         /\ next_booking_pk = n + 1
    /\ reviews = (1 :> [author |-> "alice", listing |-> 1, rating |-> 1])
    /\ inflight = <<>>
    /\ response = NoResponse

ListingNext ==
    \/ \E u \in Callers : ListingList(u)
    \/ \E u \in Callers, pk \in ListingPks : ListingRetrieve(u, pk)
    \/ \E u \in Callers, d \in ListingCreateData : ListingCreate(u, d)
    \/ \E u \in Callers, pk \in ListingPks, d \in ListingUpdateData :
         ListingUpdate(u, pk, d)
    \/ \E u \in Callers, pk \in ListingPks : ListingDestroy(u, pk)

BookingNext ==
    \/ \E u \in Callers : BookingList(u)
    \/ \E u \in Callers, pk \in BookingPks : BookingRetrieve(u, pk)
    \/ \E u \in Callers, d \in BookingCreateData : BookingCreate(u, d)
    \/ \E u \in Callers, pk \in BookingPks, d \in BookingUpdateData :
         BookingUpdate(u, pk, d)
    \/ \E u \in Callers, pk \in BookingPks : BookingDestroy(u, pk)
    \/ \E u \in Callers, pk \in BookingPks : CancelBegin(u, pk)
    \/ \E i \in 1..Len(inflight) : CancelSave(i)

ReviewNext ==
    \/ \E u \in Callers, s \in Slugs : ReviewList(u, s)
    \/ \E u \in Callers, s \in Slugs, pk \in ReviewPks : ReviewRetrieve(u, s, pk)
    \/ \E u \in Callers, s \in Slugs, d \in ReviewCreateData : ReviewCreate(u, s, d)
    \/ \E u \in Callers, s \in Slugs, pk \in ReviewPks, d \in ReviewUpdateData :
         ReviewUpdate(u, s, pk, d)
    \/ \E u \in Callers, s \in Slugs, pk \in ReviewPks : ReviewDestroy(u, s, pk)

Next == ListingNext \/ BookingNext \/ ReviewNext

\* Every handler, in any order. The claims are checked under the two
\* specifications below: the handler families share no state but the rows a
\* deleted listing takes with it.
Spec == Init /\ [][Next]_vars

\* The listing and review handlers, and the booking handlers with the one
\* listing handler that writes bookings (the cascade of a deleted listing).
ListingSpec == Init /\ [][ListingNext \/ ReviewNext]_vars
BookingSpec ==
    Init /\ [][BookingNext \/ \E u \in Callers, pk \in ListingPks : ListingDestroy(u, pk)]_vars

\* ================================================================== claims
Refused == {401, 403}

\* ---- C1 (BookingSpec) ---------------------------------------------------
\* C1: a cancel by the guest of a CONFIRMED booking is answered 200
\* "Booking cancelled", and the persisted status of that booking is
\* CANCELLED afterward.
C1_CancelPersistsCancelled ==
    (response.op = "cancel" /\ response.code = 200) =>
        /\ response.detail = "Booking cancelled"
        /\ response.pk \in DOMAIN bookings
        /\ bookings[response.pk].status = CANCELLED

\* ---- C2 (BookingSpec) ---------------------------------------------------
\* C2: a cancel by the guest of a booking whose persisted status is PENDING
\* or CANCELLED is answered 400 and leaves the booking as it is; a cancel
\* that follows a successful cancel of the same booking is answered 400.
C2_CancelNotConfirmedIs400 ==
    [][\A u \in Users, pk \in BookingPks :
         (/\ CancelBegin(u, pk)
          /\ pk \in DOMAIN bookings
          /\ bookings[pk].guest = u)
         =>
         /\ bookings[pk].status # CONFIRMED =>
              (response'.code = 400 /\ bookings' = bookings)
         /\ (response.op = "cancel" /\ response.code = 200
               /\ response.pk = pk /\ response.user = u) =>
              (response'.code = 400 /\ inflight' = inflight)]_vars

\* ---- C3 (BookingSpec) ---------------------------------------------------
\* C3: a booking list answered to principal P holds only bookings whose
\* guest is P; a retrieve, update, delete or cancel by P of a booking whose
\* guest is another principal is answered 404 and leaves the bookings as
\* they are.
C3_BookingIsolation ==
    [][/\ (response'.op = "booking_list" /\ response'.code = 200) =>
            \A b \in response'.items :
                b \in DOMAIN bookings' /\ bookings'[b].guest = response'.user
       /\ \A P \in Users, pk \in BookingPks :
            (/\ pk \in DOMAIN bookings
             /\ bookings[pk].guest # P
             /\ \/ BookingRetrieve(P, pk)
                \/ \E d \in BookingUpdateData : BookingUpdate(P, pk, d)
                \/ BookingDestroy(P, pk)
                \/ CancelBegin(P, pk))
            =>
            /\ response'.code = 404
            /\ response'.user = P /\ response'.pk = pk
            /\ bookings' = bookings
            /\ inflight' = inflight]_vars

\* The owner of the booked listing was answered 404 on cancelling a booking
\* that exists and whose guest is somebody else.
C3_Witness ==
    /\ response.op = "cancel" /\ response.code = 404
    /\ response.user \in Users
    /\ response.pk \in DOMAIN bookings
    /\ bookings[response.pk].guest # response.user
    /\ bookings[response.pk].listing \in DOMAIN listings
    /\ listings[bookings[response.pk].listing].owner = response.user

\* ---- C4 (ListingSpec) ---------------------------------------------------
\* C4: an unauthenticated list or retrieve of listings is answered 200; an
\* unauthenticated create, update or delete is answered 401/403 and leaves
\* the listings as they are.
C4_ListingAuthentication ==
    [][/\ ListingList(Anon) => response'.code = 200
       /\ \A pk \in DOMAIN listings :
            ListingRetrieve(Anon, pk) => response'.code = 200
       /\ \A pk \in ListingPks :
            (\/ \E d \in ListingCreateData : ListingCreate(Anon, d)
             \/ \E d \in ListingUpdateData : ListingUpdate(Anon, pk, d)
             \/ ListingDestroy(Anon, pk))
            => (response'.code \in Refused /\ listings' = listings)]_vars

\* ---- C5 (ListingSpec) ---------------------------------------------------
\* C5: an update or delete of a listing by an authenticated principal who
\* is not its owner is answered 403/404 and leaves the listing as it is.
C5_ListingOwnerOnly ==
    [][\A B \in Users, pk \in DOMAIN listings :
         (/\ listings[pk].owner # B
          /\ \/ \E d \in ListingUpdateData : ListingUpdate(B, pk, d)
             \/ ListingDestroy(B, pk))
         =>
         /\ response'.code \in {403, 404}
         /\ pk \in DOMAIN listings'
         /\ listings'[pk] = listings[pk]]_vars

\* ---- C6 (ListingSpec) ---------------------------------------------------
\* C6: the listing stored by a create of authenticated principal P is owned
\* by P, whatever owner the request body names.
C6_OwnerIsCreator ==
    (response.op = "listing_create" /\ response.code = 201) =>
        /\ response.user \in Users
        /\ response.pk \in DOMAIN listings
        /\ listings[response.pk].owner = response.user

\* A listing was created by a request whose body named another owner.
C6_Witness ==
    /\ response.op = "listing_create" /\ response.code = 201
    /\ response.sent # response.user
    /\ listings[response.pk].owner = response.user

\* ---- C7 (ListingSpec) ---------------------------------------------------
\* C7: a review create by authenticated principal P under the path of an
\* existing listing stores a review of that listing whose author is P.
C7_ReviewCreateStores ==
    [][\A P \in Users, s \in Slugs, d \in ReviewCreateData :
         (/\ ReviewCreate(P, s, d)
          /\ \E k \in DOMAIN listings : listings[k].slug = s)
         =>
         /\ response'.code = 201
         /\ \E v \in DOMAIN reviews' \ DOMAIN reviews :
              /\ reviews'[v].author = P
              /\ reviews'[v].listing \in DOMAIN listings
              /\ listings[reviews'[v].listing].slug = s]_vars

\* ---- C8 (ListingSpec) ---------------------------------------------------
\* C8: a list or retrieve of a listing's reviews is allowed to any caller;
\* a create by an unauthenticated caller, and an update or delete by anyone
\* but the review's author, is refused and leaves the reviews as they are.
C8_ReviewPermissions ==
    [][\A u \in Callers, s \in Slugs :
         /\ ReviewList(u, s) => response'.code = 200
         /\ \A pk \in ReviewPks :
              ReviewRetrieve(u, s, pk) => response'.code \in {200, 404}
         /\ \A d \in ReviewCreateData :
              (u = Anon /\ ReviewCreate(u, s, d)) =>
                  (response'.code \in Refused /\ reviews' = reviews)
         /\ \A pk \in DOMAIN reviews :
              (/\ reviews[pk].author # u
               /\ \/ \E d \in ReviewUpdateData : ReviewUpdate(u, s, pk, d)
                  \/ ReviewDestroy(u, s, pk))
              => (response'.code \in Refused \cup {404} /\ reviews' = reviews)]_vars

\* ---- C9 (ListingSpec) ---------------------------------------------------
\* C9: a listing retrieve is rendered by ListingDetailSerializer, every
\* other listing action by ListingSerializer.
C9_SerializerByAction ==
    /\ (response.op = "listing_retrieve" /\ response.code = 200) =>
           response.serializer = ListingDetailSerializer
    /\ (response.op \in {"listing_list", "listing_create", "listing_update"}
          /\ response.code \in {200, 201}) =>
           response.serializer = ListingSerializer

\* ---- C10 (BookingSpec) --------------------------------------------------
\* C10: a cancel request that read CONFIRMED and was then overtaken by
\* another cancel of the same booking, answered 200, is answered 200 as
\* well: nothing stands between its read and its save.
C10_NoCompareAndSwap ==
    [][\A i \in 1..Len(inflight) :
         (/\ CancelSave(i)
          /\ inflight[i].overtaken
          /\ inflight[i].pk \in DOMAIN bookings)
         =>
         /\ response'.code = 200
         /\ response'.raced]_vars

\* Two cancels of one booking both read CONFIRMED before either saved, and
\* both were answered 200.
C10_Witness ==
    /\ response.op = "cancel" /\ response.code = 200
    /\ response.raced

====
